---- MODULE Spec2Model ----
(***************************************************************************)
(* A model of the walcraft write-ahead log: producer handles (Wal::write,  *)
(* Wal::batch_write), the background writer thread (WalWriter::run), the   *)
(* reader path (Wal::read / WalReader::read), the staging buffer (Buffer), *)
(* the notification channel (mpsc) and the pause handshake (Lock).         *)
(*                                                                         *)
(* A frame is identified by its insertion number: the k-th frame pushed    *)
(* into the staging buffer is the integer k, the frame of the record       *)
(* Item { id: k }.  A file is a sequence of frames and of torn pieces (a   *)
(* frame cut short by a failed write, written as a negative integer); its  *)
(* bytes are FileBytes of that sequence.  Every load or store of an        *)
(* atomic flag, every file operation and every critical section of the     *)
(* buffer mutex is one step; thread-local computation is folded into the   *)
(* adjacent step.  The atomics are taken in program order.  The writer's    *)
(* buffer is the handles' staging buffer (lib.rs:119 hands it a clone).    *)
(***************************************************************************)
EXTENDS Integers, Sequences, FiniteSets, TLC

\* Threads calling Wal::write / Wal::batch_write on clones of one handle.
Producers == {"p1", "p2"}
\* Threads calling Wal::read on clones of one handle.
Readers == {"r1", "r2"}
\* The reading thread of Spec, and the producing thread of ReadersSpec and RingSpec.
OneReader == {"r1"}
OneProducer == {"p1"}

\* Number of segment files wal_1 .. wal_5 (writer.rs:98, reader.rs:59).
RingSize == 5
\* Smallest capacity Wal::new accepts (lib.rs:107); the engine is built with it.
MinCapacity == 100
capacity == MinCapacity
\* writer.rs:45
capacity_per_file == capacity \div 4

\* Bounds of the model.
MaxWrites == 2      \* write/batch_write calls in Spec
MaxReads == 1       \* read calls in Spec
BatchLen == 25      \* records handed to one batch_write call
PairWrites == 1     \* write/batch_write calls in ReadersSpec
RingWrites == 6     \* write/batch_write calls in RingSpec and ScanSpec
FaultWrites == 2    \* write calls in FaultSpec
MaxCapacityArg == 104   \* largest capacity argument tried in NewSpec

VARIABLES
    buffer,      \* Buffer.inner: the staging buffer, a sequence of frames
    chan,        \* number of undelivered notifications in the mpsc channel
    can_write,   \* LockInner.can_write
    is_writing,  \* LockInner.is_writing
    read_lock,   \* Wal.read_lock: TRUE while some guard of the mutex is alive
    ppc,         \* producer position: "idle" | "send"
    nWrites,     \* write/batch_write calls made so far
    nFrames,     \* frames inserted into the staging buffer so far
    wpc,         \* writer position in WalWriter::run
    wdata,       \* writer: drained frames not yet appended
    filled,      \* WalWriter.filled
    pointer,     \* WalWriter.pointer
    file,        \* WalWriter.file: index of the segment the open handle appends to
    segs,        \* contents of wal_1 .. wal_5, each a sequence of frames
    meta,        \* content of the meta file: 1..5, or 0 when it is empty
    rpc,         \* reader position in Wal::read
    rptr,        \* reader: pointer parsed from meta
    ri,          \* reader: position in read_order
    rbuf,        \* reader: file contents read so far, then the records read() returns
    nReads,      \* read calls made so far
    appended,    \* history: every frame appended to a segment, in order
    acked,       \* history: the writer stored is_writing=false since the last request_to_stop
    notified,    \* history: add/bulk_add calls that returned true since the last drain
    wrapped,     \* history: next_file has wrapped from segment 5 to segment 1
    closed,      \* every Wal handle, and with it every Sender, has been dropped
    cap_arg,     \* the capacity argument of Wal::new
    new_res      \* Wal::new: "pending" | "ok" | "capacity" | "file"

vars == <<buffer, chan, can_write, is_writing, read_lock, ppc, nWrites, nFrames,
          wpc, wdata, filled, pointer, file, segs, meta,
          rpc, rptr, ri, rbuf, nReads, appended, acked, notified, wrapped,
          closed, cap_arg, new_res>>

lockVars == <<can_write, is_writing, read_lock, acked>>
prodVars == <<ppc, nWrites, nFrames>>
writerVars == <<wpc, wdata, filled, pointer, file>>
diskVars == <<segs, meta>>
readerVars == <<rpc, rptr, ri, rbuf, nReads>>
lifeVars == <<closed, cap_arg, new_res>>

Segments == 1..RingSize

\* The frames numbered a+1 .. a+k, in order.
NewFrames(a, k) == [i \in 1..k |-> a + i]

RECURSIVE SumLen(_, _)
SumLen(f, S) == IF S = {} THEN 0
                ELSE LET x == CHOOSE y \in S : TRUE
                     IN Len(f[x]) + SumLen(f, S \ {x})

(***************************************************************************)
(* LogEntry (entry.rs) and the frame parser of WalReader::read             *)
(***************************************************************************)
\* Bytes of the length header (entry.rs:28, reader.rs:33-40).
HeaderLen == 4
\* Values of one byte.
ByteBase == 256

\* bincode::serialize of Item { id: u16 } (entry.rs:14, lib.rs:270-272): the two
\* bytes of id, low byte first.
serialize(id) == <<id % ByteBase, (id \div ByteBase) % ByteBase>>

\* bincode::deserialize (entry.rs:38): needs the two bytes of id and accepts
\* trailing bytes.  <<id>> stands for Some(Item { id }), <<>> for None.
to_original(inner) ==
    IF Len(inner) < Len(serialize(0)) THEN <<>> ELSE <<inner[1] + ByteBase * inner[2]>>

\* u32::to_ne_bytes on a little-endian target (entry.rs:28).
to_ne_bytes(n) ==
    <<n % ByteBase, (n \div ByteBase) % ByteBase,
      (n \div (ByteBase * ByteBase)) % ByteBase,
      (n \div (ByteBase * ByteBase * ByteBase)) % ByteBase>>

\* u32::from_ne_bytes (reader.rs:39).
from_ne_bytes(b) ==
    b[1] + ByteBase * b[2] + ByteBase * ByteBase * b[3]
         + ByteBase * ByteBase * ByteBase * b[4]

\* LogEntry::to_vec: the length of the payload, then the payload (entry.rs:27-32).
to_vec(inner) == to_ne_bytes(Len(inner)) \o inner

FrameLen == HeaderLen + Len(serialize(0))

\* The first n bytes of frame k, 0 < n < FrameLen, as an element of a file.
Torn(k, n) == 0 - (k * FrameLen + n)

\* The bytes of one element of a file.
ItemBytes(c) ==
    IF c > 0 THEN to_vec(serialize(c))
    ELSE SubSeq(to_vec(serialize((0 - c) \div FrameLen)), 1, (0 - c) % FrameLen)

\* The bytes of the elements lo..hi of a file, one after the other.  (Here and
\* below an intermediate value is bound by CHOOSE over a one-element set, which
\* has it computed once.)
RECURSIVE BytesOf(_, _, _)
BytesOf(items, lo, hi) ==
    IF lo > hi THEN <<>>
    ELSE IF lo = hi THEN ItemBytes(items[lo])
    ELSE CHOOSE out \in {BytesOf(items, lo, h) \o BytesOf(items, h + 1, hi) :
                            h \in {(lo + hi) \div 2}} : TRUE

\* The bytes of a file.
FileBytes(items) == BytesOf(items, 1, Len(items))

\* One pass of the parse loop of WalReader::read (reader.rs:32-44) from the
\* state st = (offset, data): indexing the four header bytes (reader.rs:33-38)
\* and slicing the payload (reader.rs:41) panic when they reach past the end
\* of the bytes.  A loop that has ended or panicked stays as it is.
parse_step(bytes, st) ==
    IF st.panic \/ ~(st.offset < Len(bytes)) THEN st
    ELSE IF st.offset + HeaderLen > Len(bytes) THEN [st EXCEPT !.panic = TRUE]
    ELSE LET size == from_ne_bytes(SubSeq(bytes, st.offset + 1, st.offset + HeaderLen))
             end == st.offset + HeaderLen + size
         IN IF end > Len(bytes) THEN [st EXCEPT !.panic = TRUE]
            ELSE [offset |-> end,
                  data |-> Append(st.data, SubSeq(bytes, st.offset + HeaderLen + 1, end)),
                  panic |-> FALSE]

\* k passes of the loop, as k \div 2 passes followed by the rest.
RECURSIVE parse_steps(_, _, _)
parse_steps(bytes, st, k) ==
    IF k = 0 THEN st
    ELSE IF k = 1 THEN CHOOSE out \in {parse_step(bytes, st)} : TRUE
    ELSE CHOOSE out \in {parse_steps(bytes, mid, k - k \div 2) :
                            mid \in {parse_steps(bytes, st, k \div 2)}} : TRUE

\* The parse loop of WalReader::read (reader.rs:30-45), run to its end: every
\* pass moves on by HeaderLen bytes or more.
parse(bytes) ==
    CHOOSE out \in {parse_steps(b, [offset |-> 0, data |-> <<>>, panic |-> FALSE],
                                 Len(b) \div HeaderLen + 1) : b \in {bytes}} : TRUE

\* lib.rs:242-247 for the entries lo..hi: the records that deserialize, in
\* order; the others are dropped.
RECURSIVE decode_range(_, _, _)
decode_range(entries, lo, hi) ==
    IF lo > hi THEN <<>>
    ELSE IF lo = hi THEN to_original(entries[lo])
    ELSE CHOOSE out \in {decode_range(entries, lo, h) \o decode_range(entries, h + 1, hi) :
                            h \in {(lo + hi) \div 2}} : TRUE

decode(entries) == decode_range(entries, 1, Len(entries))

(***************************************************************************)
(* Buffer (buffer.rs)                                                      *)
(***************************************************************************)
\* A variant of add that reports true on every call.
add_always(buf, entry) == [notify |-> TRUE, buf |-> Append(buf, entry)]

\* Buffer::add: notify = is_empty() before the push.
add(buf, entry) == [notify |-> buf = <<>>, buf |-> Append(buf, entry)]

\* A variant of bulk_add that tests is_empty() after the extend.
bulk_add_late(buf, entries) ==
    [notify |-> (buf \o entries) = <<>>, buf |-> buf \o entries]

\* Buffer::bulk_add: notify = is_empty() before the extend.
bulk_add(buf, entries) == [notify |-> buf = <<>>, buf |-> buf \o entries]

\* A variant of drain that copies the contents and leaves them in place.
drain_copy(buf) == [data |-> buf, buf |-> buf]

\* Buffer::drain, inlined in WalWriter::run: take everything, leave it empty.
drain(buf) == [data |-> buf, buf |-> <<>>]

(***************************************************************************)
(* Lock (lock.rs)                                                          *)
(***************************************************************************)
\* Lock::has_stopped after its contract check: the value it returns.
has_stopped == is_writing

(***************************************************************************)
(* WalWriter::new / Wal::new on an empty directory                         *)
(***************************************************************************)
Init ==
    /\ buffer = <<>>
    /\ chan = 0
    /\ can_write = TRUE
    /\ is_writing = TRUE
    /\ read_lock = FALSE
    /\ ppc = [p \in Producers |-> "idle"]
    /\ nWrites = 0
    /\ nFrames = 0
    /\ wpc = "loop"
    /\ wdata = <<>>
    /\ filled = 0
    /\ pointer = 1
    /\ file = 1
    /\ segs = [i \in Segments |-> <<>>]
    /\ meta = 1
    /\ rpc = [r \in Readers |-> "idle"]
    /\ rptr = [r \in Readers |-> 0]
    /\ ri = [r \in Readers |-> 0]
    /\ rbuf = [r \in Readers |-> <<>>]
    /\ nReads = 0
    /\ appended = <<>>
    /\ acked = FALSE
    /\ notified = 0
    /\ wrapped = FALSE
    /\ closed = FALSE
    /\ cap_arg = capacity
    /\ new_res = "ok"

\* The directory and the caller's argument before Wal::new runs: no writer
\* thread, no open file, a meta file left by an earlier run or none.
NewInit ==
    /\ buffer = <<>>
    /\ chan = 0
    /\ can_write = TRUE
    /\ is_writing = TRUE
    /\ read_lock = FALSE
    /\ ppc = [p \in Producers |-> "idle"]
    /\ nWrites = 0
    /\ nFrames = 0
    /\ wpc = "unspawned"
    /\ wdata = <<>>
    /\ filled = 0
    /\ pointer = 0
    /\ file = 0
    /\ segs = [i \in Segments |-> <<>>]
    /\ meta \in 0..RingSize
    /\ rpc = [r \in Readers |-> "idle"]
    /\ rptr = [r \in Readers |-> 0]
    /\ ri = [r \in Readers |-> 0]
    /\ rbuf = [r \in Readers |-> <<>>]
    /\ nReads = 0
    /\ appended = <<>>
    /\ acked = FALSE
    /\ notified = 0
    /\ wrapped = FALSE
    /\ closed = FALSE
    /\ cap_arg \in 0..MaxCapacityArg
    /\ new_res = "pending"

\* A variant of the capacity test that also rejects the smallest capacity.
capacity_ok_strict(c) == ~(c <= MinCapacity)

\* lib.rs:107: the capacity Wal::new accepts.
capacity_ok(c) == ~(c < MinCapacity)

\* Wal::new (lib.rs:106-139): the capacity test comes first and returns before
\* anything is created; then WalWriter::new writes "1" to meta and opens wal_1
\* for appending (writer.rs:31-50, 114-157), where each file operation can
\* fail with a File error; then the writer thread is spawned.
WalNew ==
    /\ new_res = "pending"
    /\ IF ~capacity_ok(cap_arg)
       THEN /\ new_res' = "capacity"
            /\ UNCHANGED <<wpc, pointer, file, meta>>
       ELSE \/ /\ new_res' = "file"
               /\ meta' \in {meta, 0, 1}
               /\ UNCHANGED <<wpc, pointer, file>>
            \/ /\ new_res' = "ok"
               /\ meta' = 1
               /\ pointer' = 1
               /\ file' = 1
               /\ wpc' = "loop"
    /\ UNCHANGED <<buffer, chan, lockVars, prodVars, wdata, filled, segs, readerVars,
                   appended, notified, wrapped, closed, cap_arg>>

\* The last clone of the handle is dropped, and with it the last Sender; no
\* call is in progress on a handle that is dropped.
DropHandles ==
    /\ ~closed
    /\ \A p \in Producers : ppc[p] = "idle"
    /\ \A r \in Readers : rpc[r] \in {"idle", "panicked", "parse_panic"}
    /\ closed' = TRUE
    /\ UNCHANGED <<buffer, chan, lockVars, prodVars, writerVars, diskVars, readerVars,
                   appended, notified, wrapped, cap_arg, new_res>>

(***************************************************************************)
(* Producers: Wal::write, Wal::batch_write (lib.rs)                        *)
(***************************************************************************)
\* Wal::write up to the return of Buffer::add (one critical section).
WriteAdd(p, limit) ==
    /\ ~closed
    /\ ppc[p] = "idle"
    /\ nWrites < limit
    /\ LET r == add(buffer, nFrames + 1) IN
        /\ buffer' = r.buf
        /\ ppc' = [ppc EXCEPT ![p] = IF r.notify THEN "send" ELSE "idle"]
        /\ notified' = IF r.notify THEN notified + 1 ELSE notified
    /\ nWrites' = nWrites + 1
    /\ nFrames' = nFrames + 1
    /\ UNCHANGED <<chan, lockVars, writerVars, diskVars, readerVars, appended, wrapped, lifeVars>>

\* Wal::batch_write up to the return of Buffer::bulk_add.
BatchWriteAdd(p, limit) ==
    /\ ~closed
    /\ ppc[p] = "idle"
    /\ nWrites < limit
    /\ LET r == bulk_add(buffer, NewFrames(nFrames, BatchLen)) IN
        /\ buffer' = r.buf
        /\ ppc' = [ppc EXCEPT ![p] = IF r.notify THEN "send" ELSE "idle"]
        /\ notified' = IF r.notify THEN notified + 1 ELSE notified
    /\ nWrites' = nWrites + 1
    /\ nFrames' = nFrames + BatchLen
    /\ UNCHANGED <<chan, lockVars, writerVars, diskVars, readerVars, appended, wrapped, lifeVars>>

\* `let _ = self.sender.send(())`: queued unless the receiver is gone.
Send(p) ==
    /\ ppc[p] = "send"
    /\ chan' = IF wpc = "panicked" THEN chan ELSE chan + 1
    /\ ppc' = [ppc EXCEPT ![p] = "idle"]
    /\ UNCHANGED <<buffer, lockVars, nWrites, nFrames, writerVars, diskVars,
                   readerVars, appended, notified, wrapped, lifeVars>>

(***************************************************************************)
(* Writer thread: WalWriter::run (writer.rs)                               *)
(***************************************************************************)
\* writer.rs:58-62: poll can_write; sleep and retry while it is false.
WLoop ==
    /\ wpc = "loop"
    /\ wpc' = IF can_write THEN "recv" ELSE "loop"
    /\ UNCHANGED <<buffer, chan, lockVars, prodVars, wdata, filled, pointer, file,
                   diskVars, readerVars, appended, notified, wrapped, lifeVars>>

\* writer.rs:64: blocking receive.  It returns with a notification, or with an
\* error once the channel is empty and every sender is gone; `let _d =` drops
\* either result.
WRecv ==
    /\ wpc = "recv"
    /\ chan > 0 \/ closed
    /\ chan' = IF chan > 0 THEN chan - 1 ELSE chan
    /\ wpc' = "drain"
    /\ UNCHANGED <<buffer, lockVars, prodVars, wdata, filled, pointer, file,
                   diskVars, readerVars, appended, notified, wrapped, lifeVars>>

\* writer.rs:65-80: take the buffer's contents and count them in `filled`;
\* nothing there: next iteration.
WDrain ==
    /\ wpc = "drain"
    /\ IF buffer = <<>>
       THEN /\ wpc' = "loop"
            /\ UNCHANGED <<buffer, wdata, filled, notified>>
       ELSE LET d == drain(buffer) IN
            /\ buffer' = d.buf
            /\ wdata' = d.data
            /\ filled' = filled + Len(d.data)
            /\ notified' = 0
            /\ wpc' = "write"
    /\ UNCHANGED <<chan, lockVars, prodVars, pointer, file, diskVars, readerVars,
                   appended, wrapped, lifeVars>>

\* writer.rs:81-85: append one frame; after the last one, test the fill level.
WWrite ==
    /\ wpc = "write"
    /\ wdata # <<>>
    /\ segs' = [segs EXCEPT ![file] = Append(@, Head(wdata))]
    /\ appended' = Append(appended, Head(wdata))
    /\ wdata' = Tail(wdata)
    /\ wpc' = IF Len(wdata) > 1 THEN "write"
              ELSE IF filled >= capacity_per_file THEN "wp_create" ELSE "ack"
    /\ UNCHANGED <<buffer, chan, lockVars, prodVars, filled, pointer, file, meta,
                   readerVars, notified, wrapped, lifeVars>>

\* writer.rs:82 when write_all fails: `let _ =` drops the error, the n bytes
\* written before the failure stay in the file, and the loop goes on.
WWriteFail ==
    /\ wpc = "write"
    /\ wdata # <<>>
    /\ \E n \in 0..(FrameLen - 1) :
         segs' = [segs EXCEPT ![file] =
                    IF n = 0 THEN @ ELSE Append(@, Torn(Head(wdata), n))]
    /\ wdata' = Tail(wdata)
    /\ wpc' = IF Len(wdata) > 1 THEN "write"
              ELSE IF filled >= capacity_per_file THEN "wp_create" ELSE "ack"
    /\ UNCHANGED <<buffer, chan, lockVars, prodVars, filled, pointer, file, meta,
                   readerVars, appended, notified, wrapped, lifeVars>>

\* next_file: the index after p, wrapping to 1 (writer.rs:97-100).
next_pointer(p) == IF p + 1 > RingSize THEN 1 ELSE p + 1

\* write_pointer: File::create truncates meta (writer.rs:128).
WCreateMeta ==
    /\ wpc = "wp_create"
    /\ meta' = 0
    /\ wpc' = "wp_write"
    /\ UNCHANGED <<buffer, chan, lockVars, prodVars, wdata, filled, pointer, file,
                   segs, readerVars, appended, notified, wrapped, lifeVars>>

\* write_pointer: write the decimal index (writer.rs:135-136).
WWriteMeta ==
    /\ wpc = "wp_write"
    /\ meta' = next_pointer(pointer)
    /\ wpc' = "open"
    /\ UNCHANGED <<buffer, chan, lockVars, prodVars, wdata, filled, pointer, file,
                   segs, readerVars, appended, notified, wrapped, lifeVars>>

\* write_pointer when File::create fails (writer.rs:128-133): set_pointer returns
\* the error and next_file returns without touching its state (writer.rs:102-107).
WCreateMetaFail ==
    /\ wpc = "wp_create"
    /\ wpc' = "ack"
    /\ UNCHANGED <<buffer, chan, lockVars, prodVars, wdata, filled, pointer, file,
                   diskVars, readerVars, appended, notified, wrapped, lifeVars>>

\* write_pointer when write_all fails (writer.rs:136-140): meta stays empty.
WWriteMetaFail ==
    /\ wpc = "wp_write"
    /\ wpc' = "ack"
    /\ UNCHANGED <<buffer, chan, lockVars, prodVars, wdata, filled, pointer, file,
                   diskVars, readerVars, appended, notified, wrapped, lifeVars>>

\* open_file when the truncating File::create fails (writer.rs:147-151), or when
\* it succeeds and the appending open fails (writer.rs:152-156): next_file
\* returns without touching its state.
WOpenFileFail ==
    /\ wpc = "open"
    /\ \/ segs' = segs
       \/ segs' = [segs EXCEPT ![next_pointer(pointer)] = <<>>]
    /\ wpc' = "ack"
    /\ UNCHANGED <<buffer, chan, lockVars, prodVars, wdata, filled, pointer, file,
                   meta, readerVars, appended, notified, wrapped, lifeVars>>

\* A variant of the state update of next_file that keeps the fill count.
WOpenFile_KeepFilled ==
    /\ wpc = "open"
    /\ LET n == next_pointer(pointer) IN
        /\ segs' = [segs EXCEPT ![n] = <<>>]
        /\ file' = n
        /\ pointer' = n
        /\ wrapped' = (wrapped \/ n = 1)
    /\ wpc' = "ack"
    /\ UNCHANGED <<buffer, chan, lockVars, prodVars, wdata, filled, meta, readerVars,
                   appended, notified, lifeVars>>

\* open_file with delete=true, then next_file's state update (writer.rs:108-111, 144-156).
WOpenFile ==
    /\ wpc = "open"
    /\ LET n == next_pointer(pointer) IN
        /\ segs' = [segs EXCEPT ![n] = <<>>]
        /\ file' = n
        /\ pointer' = n
        /\ wrapped' = (wrapped \/ n = 1)
    /\ filled' = 0
    /\ wpc' = "ack"
    /\ UNCHANGED <<buffer, chan, lockVars, prodVars, wdata, meta, readerVars,
                   appended, notified, lifeVars>>

\* writer.rs:89: was a pause requested while the batch was written?
WAck ==
    /\ wpc = "ack"
    /\ wpc' = IF can_write THEN "loop" ELSE "stop"
    /\ UNCHANGED <<buffer, chan, lockVars, prodVars, wdata, filled, pointer, file,
                   diskVars, readerVars, appended, notified, wrapped, lifeVars>>

\* A variant of the check in Lock::stop that lets the call go on to the store.
WStopCheck_NoPanic ==
    /\ wpc = "stop"
    /\ wpc' = "stop_store"
    /\ UNCHANGED <<buffer, chan, lockVars, prodVars, wdata, filled, pointer, file,
                   diskVars, readerVars, appended, notified, wrapped, lifeVars>>

\* Lock::stop, the contract check (lock.rs:45-47): a panic ends the thread and
\* drops the receiver with whatever it still held.
WStopCheck ==
    /\ wpc = "stop"
    /\ IF can_write
       THEN wpc' = "panicked" /\ chan' = 0
       ELSE wpc' = "stop_store" /\ chan' = chan
    /\ UNCHANGED <<buffer, lockVars, prodVars, wdata, filled, pointer, file,
                   diskVars, readerVars, appended, notified, wrapped, lifeVars>>

\* Lock::stop, the store (lock.rs:48).
WStopStore ==
    /\ wpc = "stop_store"
    /\ is_writing' = FALSE
    /\ acked' = TRUE
    /\ wpc' = "loop"
    /\ UNCHANGED <<buffer, chan, can_write, read_lock, prodVars, wdata, filled,
                   pointer, file, diskVars, readerVars, appended, notified, wrapped, lifeVars>>

Writer ==
    \/ WLoop
    \/ WRecv
    \/ WDrain
    \/ WWrite
    \/ WCreateMeta
    \/ WWriteMeta
    \/ WOpenFile
    \/ WAck
    \/ WStopCheck
    \/ WStopStore

(***************************************************************************)
(* Readers: Wal::read (lib.rs), WalReader (reader.rs)                      *)
(***************************************************************************)
\* A variant of read_order that walks the ring upwards.
RECURSIVE read_order_up(_, _)
read_order_up(d, ptr) ==
    IF Len(d) >= RingSize THEN d
    ELSE read_order_up(Append(d, ptr), IF ptr + 1 > RingSize THEN 1 ELSE ptr + 1)

\* WalReader::read_order: pointer, pointer-1, .., wrapping below 1 to 5, five entries.
RECURSIVE read_order_from(_, _)
read_order_from(d, ptr) ==
    IF Len(d) >= RingSize THEN d
    ELSE read_order_from(Append(d, ptr), IF ptr - 1 < 1 THEN RingSize ELSE ptr - 1)

read_order(ptr) == read_order_from(<<>>, ptr)

\* lib.rs:248-251: keep the last `capacity` records.
cutoff(data) ==
    IF Len(data) > capacity
    THEN SubSeq(data, Len(data) - capacity + 1, Len(data))
    ELSE data

\* lib.rs:231: `let _ = self.read_lock.lock();` takes the mutex and drops the
\* guard at the end of the statement.
ReadLock(r, limit) ==
    /\ ~closed
    /\ rpc[r] = "idle"
    /\ nReads < limit
    /\ ~read_lock
    /\ read_lock' = FALSE
    /\ nReads' = nReads + 1
    /\ rpc' = [rpc EXCEPT ![r] = "request"]
    /\ UNCHANGED <<buffer, chan, can_write, is_writing, acked, prodVars, writerVars,
                   diskVars, rptr, ri, rbuf, appended, notified, wrapped, lifeVars>>

\* Lock::request_to_stop (lock.rs:40).
RRequestToStop(r) ==
    /\ rpc[r] = "request"
    /\ can_write' = FALSE
    /\ acked' = FALSE
    /\ rpc' = [rpc EXCEPT ![r] = "poll"]
    /\ UNCHANGED <<buffer, chan, is_writing, read_lock, prodVars, writerVars, diskVars,
                   rptr, ri, rbuf, nReads, appended, notified, wrapped, lifeVars>>

\* Lock::has_stopped, the contract check (lock.rs:53-55).
RPollCheck(r) ==
    /\ rpc[r] = "poll"
    /\ rpc' = [rpc EXCEPT ![r] = IF can_write THEN "panicked" ELSE "poll_load"]
    /\ UNCHANGED <<buffer, chan, lockVars, prodVars, writerVars, diskVars,
                   rptr, ri, rbuf, nReads, appended, notified, wrapped, lifeVars>>

\* Lock::has_stopped, the returned load, and the loop test of lib.rs:235-237.
RPollLoad(r) ==
    /\ rpc[r] = "poll_load"
    /\ rpc' = [rpc EXCEPT ![r] = IF has_stopped THEN "meta" ELSE "poll"]
    /\ UNCHANGED <<buffer, chan, lockVars, prodVars, writerVars, diskVars,
                   rptr, ri, rbuf, nReads, appended, notified, wrapped, lifeVars>>

\* WalReader::current_pointer (reader.rs:48-55); an empty meta does not parse and
\* read() returns the error through `?` (lib.rs:241).
RMeta(r) ==
    /\ rpc[r] = "meta"
    /\ IF meta = 0
       THEN /\ rpc' = [rpc EXCEPT ![r] = "idle"]
            /\ UNCHANGED <<rptr, ri>>
       ELSE /\ rptr' = [rptr EXCEPT ![r] = meta]
            /\ ri' = [ri EXCEPT ![r] = 1]
            /\ rpc' = [rpc EXCEPT ![r] = "seg"]
    /\ UNCHANGED <<buffer, chan, lockVars, prodVars, writerVars, diskVars,
                   rbuf, nReads, appended, notified, wrapped, lifeVars>>

\* WalReader::current_pointer when read_to_string fails (reader.rs:51-52): the
\* File error leaves read() through `?` (lib.rs:241).
RMetaFail(r) ==
    /\ rpc[r] = "meta"
    /\ rpc' = [rpc EXCEPT ![r] = "idle"]
    /\ UNCHANGED <<buffer, chan, lockVars, prodVars, writerVars, diskVars,
                   rptr, ri, rbuf, nReads, appended, notified, wrapped, lifeVars>>

\* reader.rs:25-26 when read_to_end fails: the File error leaves read() through
\* `?` (lib.rs:241) and the bytes read so far are dropped.
RSegFail(r) ==
    /\ rpc[r] = "seg"
    /\ rpc' = [rpc EXCEPT ![r] = "idle"]
    /\ rbuf' = [rbuf EXCEPT ![r] = <<>>]
    /\ rptr' = [rptr EXCEPT ![r] = 0]
    /\ ri' = [ri EXCEPT ![r] = 0]
    /\ UNCHANGED <<buffer, chan, lockVars, prodVars, writerVars, diskVars,
                   nReads, appended, notified, wrapped, lifeVars>>

\* reader.rs:18-29: read one segment of the visiting order to its end.
RSeg(r) ==
    /\ rpc[r] = "seg"
    /\ rbuf' = [rbuf EXCEPT ![r] = @ \o segs[read_order(rptr[r])[ri[r]]]]
    /\ IF ri[r] < RingSize
       THEN ri' = [ri EXCEPT ![r] = @ + 1] /\ UNCHANGED rpc
       ELSE ri' = [ri EXCEPT ![r] = 0] /\ rpc' = [rpc EXCEPT ![r] = "start"]
    /\ UNCHANGED <<buffer, chan, lockVars, prodVars, writerVars, diskVars,
                   rptr, nReads, appended, notified, wrapped, lifeVars>>

\* reader.rs:30-45 and lib.rs:242-254: parse the bytes read, decode, cut to
\* capacity, then Lock::start's first store (lock.rs:62).  A panic of the parse
\* loop ends the calling thread inside read().
RStartCanWrite(r) ==
    /\ rpc[r] = "start"
    /\ \E p \in {parse(FileBytes(rbuf[r]))} :
         IF p.panic
         THEN /\ rpc' = [rpc EXCEPT ![r] = "parse_panic"]
              /\ UNCHANGED <<rbuf, can_write>>
         ELSE /\ rbuf' = [rbuf EXCEPT ![r] = cutoff(decode(p.data))]
              /\ can_write' = TRUE
              /\ rpc' = [rpc EXCEPT ![r] = "start_store"]
    /\ UNCHANGED <<buffer, chan, is_writing, read_lock, acked, prodVars, writerVars,
                   diskVars, rptr, ri, nReads, appended, notified, wrapped, lifeVars>>

\* Lock::start's second store (lock.rs:63), unpark, and the return (lib.rs:255-258).
RStartIsWriting(r) ==
    /\ rpc[r] = "start_store"
    /\ is_writing' = TRUE
    /\ acked' = FALSE
    /\ rbuf' = [rbuf EXCEPT ![r] = <<>>]
    /\ rptr' = [rptr EXCEPT ![r] = 0]
    /\ rpc' = [rpc EXCEPT ![r] = "idle"]
    /\ UNCHANGED <<buffer, chan, can_write, read_lock, prodVars, writerVars, diskVars,
                   ri, nReads, appended, notified, wrapped, lifeVars>>

Reader(r) ==
    \/ RRequestToStop(r)
    \/ RPollCheck(r)
    \/ RPollLoad(r)
    \/ RMeta(r)
    \/ RSeg(r)
    \/ RStartCanWrite(r)
    \/ RStartIsWriting(r)

(***************************************************************************)
(* Specifications                                                          *)
(***************************************************************************)
\* Two producers, the writer and one reading thread.
Next ==
    \/ \E p \in Producers : WriteAdd(p, MaxWrites)
    \/ \E p \in Producers : BatchWriteAdd(p, MaxWrites)
    \/ \E p \in Producers : Send(p)
    \/ Writer
    \/ \E r \in OneReader : ReadLock(r, MaxReads)
    \/ \E r \in OneReader : Reader(r)

Spec == Init /\ [][Next]_vars

\* The threads are scheduled fairly: a thread that can take a step of the code it
\* is in takes it.  Whether a handle is used for another call is up to the caller.
Fairness ==
    /\ WF_vars(Writer)
    /\ \A p \in Producers : WF_vars(Send(p))
    /\ \A r \in OneReader : WF_vars(Reader(r))

FairSpec == Spec /\ Fairness

\* One producer, the writer and two reading threads, each reading once.
ReadersNext ==
    \/ \E p \in OneProducer : WriteAdd(p, PairWrites)
    \/ \E p \in OneProducer : BatchWriteAdd(p, PairWrites)
    \/ \E p \in OneProducer : Send(p)
    \/ Writer
    \/ \E r \in Readers : ReadLock(r, Cardinality(Readers))
    \/ \E r \in Readers : Reader(r)

ReadersSpec == Init /\ [][ReadersNext]_vars

\* Two readers whose calls overlap, the writer, and one producer of single
\* records: no segment fills up, so the writer never rotates.
MisuseNext ==
    \/ \E p \in OneProducer : WriteAdd(p, PairWrites)
    \/ \E p \in OneProducer : Send(p)
    \/ WLoop \/ WRecv \/ WDrain \/ WWrite \/ WAck \/ WStopCheck \/ WStopStore
    \/ \E r \in Readers : ReadLock(r, Cardinality(Readers))
    \/ \E r \in Readers : Reader(r)

MisuseSpec == Init /\ [][MisuseNext]_vars

\* Everything written so far is in the segment files and the writer is blocked
\* in its receive.
Flushed ==
    /\ buffer = <<>>
    /\ wdata = <<>>
    /\ chan = 0
    /\ wpc = "recv"
    /\ \A p \in Producers : ppc[p] = "idle"

\* One thread that writes, waits for the flush, and reads (as tests::read_after_write
\* does), long enough for the ring to wrap.  The writer is idle during every
\* read, so it never sees can_write = false.
ScanNext ==
    \/ \E p \in OneProducer :
            (\A r \in Readers : rpc[r] = "idle") /\ WriteAdd(p, RingWrites)
    \/ \E p \in OneProducer :
            (\A r \in Readers : rpc[r] = "idle") /\ BatchWriteAdd(p, RingWrites)
    \/ \E p \in OneProducer : Send(p)
    \/ WLoop \/ WRecv \/ WDrain \/ WWrite \/ WCreateMeta \/ WWriteMeta \/ WOpenFile \/ WAck
    \/ \E r \in OneReader : Flushed /\ ReadLock(r, MaxReads)
    \/ \E r \in OneReader : Reader(r)

ScanSpec == Init /\ [][ScanNext]_vars

\* One producer of single records, the writer on a disk whose writes can fail,
\* and one reading thread.  No segment fills up, so the writer never rotates.
FaultNext ==
    \/ \E p \in OneProducer : WriteAdd(p, FaultWrites)
    \/ \E p \in OneProducer : Send(p)
    \/ WLoop \/ WRecv \/ WDrain \/ WWrite \/ WWriteFail \/ WAck \/ WStopCheck \/ WStopStore
    \/ \E r \in OneReader : ReadLock(r, MaxReads)
    \/ \E r \in OneReader : Reader(r)

FaultSpec == Init /\ [][FaultNext]_vars

\* The writer thread while nobody calls read(): it never enters Lock::stop.
WriterAlone ==
    \/ WLoop
    \/ WRecv
    \/ WDrain
    \/ WWrite
    \/ WCreateMeta
    \/ WWriteMeta
    \/ WOpenFile
    \/ WAck

\* Two producers and the writer; at some point the handles are dropped.
CloseNext ==
    \/ \E p \in Producers : WriteAdd(p, MaxWrites)
    \/ \E p \in Producers : BatchWriteAdd(p, MaxWrites)
    \/ \E p \in Producers : Send(p)
    \/ WriterAlone
    \/ DropHandles

\* The writer thread and the producers inside a call are scheduled fairly.
CloseSpec ==
    /\ Init
    /\ [][CloseNext]_vars
    /\ WF_vars(WriterAlone)
    /\ \A p \in Producers : WF_vars(Send(p))

\* A call of Wal::new with any capacity argument up to MaxCapacityArg.
NewSpec == NewInit /\ [][WalNew]_vars

\* One producer of single records, the writer, and one reading thread on a
\* disk where reading meta or a segment can fail.
ReadFaultNext ==
    \/ \E p \in OneProducer : WriteAdd(p, FaultWrites)
    \/ \E p \in OneProducer : Send(p)
    \/ WLoop \/ WRecv \/ WDrain \/ WWrite \/ WAck \/ WStopCheck \/ WStopStore
    \/ \E r \in OneReader : ReadLock(r, MaxReads)
    \/ \E r \in OneReader : Reader(r)
    \/ \E r \in OneReader : RMetaFail(r)
    \/ \E r \in OneReader : RSegFail(r)

ReadFaultSpec == Init /\ [][ReadFaultNext]_vars

\* One producer and the writer on a disk where each file operation of a
\* rotation can fail, long enough for the ring to wrap.
RotateNext ==
    \/ \E p \in OneProducer : WriteAdd(p, RingWrites)
    \/ \E p \in OneProducer : BatchWriteAdd(p, RingWrites)
    \/ \E p \in OneProducer : Send(p)
    \/ WriterAlone
    \/ WCreateMetaFail
    \/ WWriteMetaFail
    \/ WOpenFileFail

RotateSpec == Init /\ [][RotateNext]_vars

\* One producer and the writer, long enough for the ring to wrap.  Nobody calls
\* read(), so can_write stays true and the writer never enters Lock::stop.
RingNext ==
    \/ \E p \in OneProducer : WriteAdd(p, RingWrites)
    \/ \E p \in OneProducer : BatchWriteAdd(p, RingWrites)
    \/ \E p \in OneProducer : Send(p)
    \/ WLoop
    \/ WRecv
    \/ WDrain
    \/ WWrite
    \/ WCreateMeta
    \/ WWriteMeta
    \/ WOpenFile
    \/ WAck

RingSpec == Init /\ [][RingNext]_vars

(***************************************************************************)
(* Properties                                                              *)
(***************************************************************************)
\* Positions of read() after its polling loop and before its call of start().
ScanPcs == {"meta", "seg", "start"}
\* Positions of read() after request_to_stop() and before start() has finished.
CyclePcs == {"poll", "poll_load", "meta", "seg", "start", "start_store"}

Scanning(r) == rpc[r] \in ScanPcs

\* C1: while some read() is between leaving its has_stopped() polling loop and
\* calling start(), no step appends to a segment, truncates a segment or writes
\* the meta file.
C1_ScanOnlyWhileQuiesced ==
    [][(\E r \in Readers : Scanning(r)) => (segs' = segs /\ meta' = meta)]_vars

\* C2: a call of has_stopped() returns true exactly when the writer has called
\* stop() since the request_to_stop() and start() has not been called since.
C2_HasStoppedFollowsStop ==
    [][\A r \in Readers :
          (rpc[r] = "poll_load" /\ rpc'[r] # "poll_load")
              => ((rpc'[r] = "meta") <=> acked)]_vars

\* C3: at most one read() call is between its request_to_stop() and the end of
\* its start().
C3_OneQuiesceCycle ==
    Cardinality({r \in Readers : rpc[r] \in CyclePcs}) <= 1

\* C4: every read() call that was started eventually returns.
C4_ReadReturns ==
    \A r \in Readers : (rpc[r] # "idle") ~> (rpc[r] = "idle")

\* Every read() that was started has returned and the coordinator is Running.
ReadsDone == can_write /\ \A r \in Readers : rpc[r] = "idle"

\* C5: provided the reads end and leave the coordinator in Running, every frame
\* inserted into the staging buffer is eventually appended to a segment.
C5_FramesReachDisk ==
    (<>[]ReadsDone) => ((Len(appended) < nFrames) ~> (Len(appended) = nFrames))

\* C6: the frames appended so far, the drained frames still in the writer's hand
\* and the buffer's contents are, in this order, exactly the frames in insertion
\* order; and a drain takes the whole buffer and leaves it empty.
C6_InOrderExactlyOnce ==
    /\ [](appended \o wdata \o buffer = NewFrames(0, nFrames))
    /\ [][(wpc = "drain" /\ wpc' = "write") => (wdata' = buffer /\ buffer' = <<>>)]_vars

\* C6 witness: one batch partly appended, partly in the writer's hand, with
\* later frames waiting in the buffer.
C6_Witness == appended # <<>> /\ wdata # <<>> /\ buffer # <<>> /\ nWrites >= 2

\* C7: since the last drain exactly one add/bulk_add call returned true if the
\* buffer is non-empty, and none if it is empty.
C7_OneNotifyPerDrain == notified = (IF buffer = <<>> THEN 0 ELSE 1)

\* C7 witness: two calls inserted since the last drain (or the start) and one of
\* them returned true.
C7_Witness == Len(buffer) >= 2 /\ nWrites >= 2 /\ notified = 1

\* C8: the notification channel never holds more than one undelivered notification.
C8_OnePendingWakeup == chan <= 1

\* C8 witness: a burst of two calls left one notification in the channel.
C8_Witness == chan = 1 /\ Len(buffer) >= 2 /\ nWrites >= 2

\* C9: no segment holds more frames than capacity_per_file.
C9_SegmentWithinCapacity ==
    \A i \in Segments : Len(segs[i]) <= capacity_per_file

\* C10: once the ring has wrapped, the frames retained over all segments are at
\* most `capacity`.
C10_RetentionBound ==
    wrapped => SumLen(segs, Segments) <= capacity

\* C15: has_stopped() and stop() called while can_write is true end in a panic
\* of the calling thread and leave both flags as they were.
C15_MisuseFailsFast ==
    [][/\ \A r \in Readers :
            (rpc[r] = "poll" /\ can_write /\ rpc'[r] # "poll")
                => (rpc'[r] = "panicked" /\ UNCHANGED <<can_write, is_writing>>)
       /\ (wpc = "stop" /\ can_write /\ wpc' # "stop")
                => (wpc' = "panicked" /\ UNCHANGED <<can_write, is_writing>>)]_vars

\* C15 witness: a reader died in has_stopped() and the writer died in stop().
C15_Witness == wpc = "panicked" /\ \E r \in Readers : rpc[r] = "panicked"

\* C18: outside a start() in progress, can_write = true never comes with
\* is_writing = false.
C18_ThreeStates ==
    (\A r \in Readers : rpc[r] # "start_store") => ~(can_write /\ ~is_writing)

\* C19: the writer never panics in Lock::stop.
C19_WriterNeverPanics == wpc # "panicked"

\* C20: a non-empty buffer comes with a queued notification, a producer about to
\* send one, or a writer that has received one and has not drained yet.
C20_NoLostWakeup ==
    buffer # <<>> => (chan > 0 \/ (\E p \in Producers : ppc[p] = "send") \/ wpc = "drain")

\* C11: read() returns at most `capacity` records, and when the segments hold
\* more than `capacity` records it returns the last `capacity` records written,
\* in the order they were written.
C11_ReadMostRecent ==
    \A r \in Readers :
        rpc[r] = "start_store" =>
            /\ Len(rbuf[r]) <= capacity
            /\ SumLen(segs, Segments) > capacity =>
                   rbuf[r] = SubSeq(appended, Len(appended) - capacity + 1, Len(appended))

\* C12: for every pointer p of the ring, read_order(p) is p, p-1, .., 1, 5, ..,
\* p+1: five entries, every segment index once, p first; and a reader scanning
\* the files visits them in that order.
C12_ReadOrder ==
    /\ \A p \in Segments :
         LET o == read_order(p) IN
            /\ Len(o) = RingSize
            /\ o[1] = p
            /\ {o[i] : i \in 1..RingSize} = Segments
            /\ \A i \in 1..RingSize :
                 o[i] = IF i <= p THEN p - i + 1 ELSE RingSize - (i - p) + 1
    /\ \A r \in Readers :
         rpc[r] = "seg" =>
            /\ rptr[r] \in Segments
            /\ read_order(rptr[r])[ri[r]] =
                  IF ri[r] <= rptr[r] THEN rptr[r] - ri[r] + 1
                  ELSE RingSize - (ri[r] - rptr[r]) + 1

\* C12 witness: a reader that started at segment 3 is about to read segment 5.
C12_Witness ==
    \E r \in Readers : rpc[r] = "seg" /\ rptr[r] = 3 /\ read_order(rptr[r])[ri[r]] = RingSize

\* C13: whenever the writer is not in the middle of appending a batch, the bytes
\* of every segment file are a concatenation of complete frames, also after
\* appends that failed.
C13_NoTornFrames ==
    wpc # "write" =>
        \A i \in Segments : ~parse(FileBytes(segs[i])).panic

\* C14: the frame parser of read() never panics, whatever bytes the segment
\* files hold.
C14_ParseNeverPanics == \A r \in Readers : rpc[r] # "parse_panic"

\* C16: once every handle has been dropped, the writer thread eventually comes
\* to an end: it takes no further step.
C16_WriterExitsOnClose == closed ~> ~ENABLED WriterAlone

\* C17: Wal::new returns the Capacity error for every capacity below 100,
\* leaving the files alone and spawning no writer, and never returns it for a
\* capacity of 100 or more.
C17_CapacityValidated ==
    [][(new_res = "pending" /\ new_res' # "pending") =>
          IF cap_arg < MinCapacity
          THEN new_res' = "capacity" /\ wpc' = "unspawned" /\ UNCHANGED diskVars
          ELSE new_res' # "capacity"]_vars

\* C17 witness: capacity 99 was refused.
C17_Witness ==
    new_res = "capacity" /\ cap_arg = MinCapacity - 1 /\ wpc = "unspawned"

\* C21: the writer starts a rotation exactly when a batch has been appended and
\* filled has reached capacity_per_file; a rotation that goes through moves the
\* index from p to (p mod 5) + 1, leaves that segment empty, has the new index
\* in meta, resets filled and switches the file; a rotation that fails keeps
\* index and file, and the writer goes on; frames are appended to the segment
\* of the current index only.
C21_RotationStep ==
    [][/\ (wpc = "write" /\ wpc' # "write") =>
            (wpc' = "wp_create" <=> filled >= capacity_per_file)
       /\ (wpc # "wp_create" /\ wpc' = "wp_create") => wpc = "write"
       /\ (wpc \in {"wp_create", "wp_write", "open"} /\ wpc' # wpc) =>
            wpc' \in {"wp_write", "open", "ack"}
       /\ (wpc \in {"wp_create", "wp_write"} /\ wpc' = "ack") =>
            (pointer' = pointer /\ file' = file)
       /\ (wpc = "open" /\ wpc' = "ack") =>
            IF pointer' # pointer
            THEN LET n == (pointer % RingSize) + 1 IN
                 /\ n \in Segments
                 /\ pointer' = n
                 /\ file' = n
                 /\ segs'[n] = <<>>
                 /\ meta' = n
                 /\ filled' = 0
            ELSE file' = file
       /\ wpc = "write" =>
            \A i \in Segments \ {pointer} : segs'[i] = segs[i]]_vars

\* C21 witness: the ring has wrapped, and a later rotation failed after meta
\* was written.
C21_Witness == wrapped /\ wpc = "ack" /\ meta \in Segments /\ meta # pointer /\ filled > 0

\* C22: whenever the writer is not inside a rotation, meta holds the index of
\* the segment the writer appends to.
C22_MetaNamesActiveSegment ==
    wpc \notin {"wp_create", "wp_write", "open"} => meta = file

\* C23: every return of read(), with records or with an error, comes after
\* Lock::start has run to its end in that call.
C23_ReadAlwaysRestarts ==
    [][\A r \in Readers :
          (rpc[r] # "idle" /\ rpc'[r] = "idle") => rpc[r] = "start_store"]_vars

====
